---- MODULE Spec2Model ----
(***************************************************************************)
(* The connection gateway of the Minecraft server wrapper:                 *)
(* src/src/gateway_manager.py (GatewayManager).  The state is the          *)
(* manager's dictionaries and port sets, the cleanup thread's position and *)
(* the forwarder threads it has started.                                   *)
(*                                                                         *)
(* Spec        : sessions, the port pool, the cleanup thread and the clock.*)
(*               Every GatewayManager method call runs to completion       *)
(*               before the next one starts; the cleanup thread's sweep is *)
(*               split where the code splits it (collect, then one revoke  *)
(*               per collected code), so API calls fall between the two.   *)
(* SpecForward : Spec with the forwarder threads start_port_forwarding     *)
(*               starts.                                                   *)
(* SpecConc    : two request threads run create_connection statement by    *)
(*               statement, so allocate_port's emptiness check and its pop *)
(*               can interleave.                                           *)
(* SpecSweep   : the cleanup thread walks self.connections item by item    *)
(*               while requests create and approve sessions.               *)
(* SpecRoutes  : the routes and socket events of src/src/web_dashboard.py, *)
(*               under either setting of require_approval.                 *)
(* SpecRelay   : sessions made by the request route, their forwarders and  *)
(*               the accept loops (accept, dial the backend, relay).       *)
(* SpecCopy    : one relayed connection: the two _forward_socket threads   *)
(*               and the peers of their sockets.                           *)
(* SpecClose   : SpecCopy without the bytes' values, the threads scheduled *)
(*               fairly.                                                   *)
(* SpecQuick   : two request threads run quick_join                        *)
(*               (src/src/connection_manager.py) statement by statement    *)
(*               beside the request route.                                 *)
(*                                                                         *)
(* Fields of a connection that no modelled operation reads (user_info,     *)
(* stats.last_activity, approved_at, revoked_at) and the JSON file written *)
(* by save_connection_info are left out.                                   *)
(***************************************************************************)
EXTENDS Integers, Sequences, FiniteSets, TLC

\* ------------------------------------------------------------ bounds
\* Size of the port pool; the code's pool is range(30000, 40000).
NumPorts == 1
\* Size of the code space; the code's is 16^connection_code_length.
NumCodes == 2
\* Last instant of the clock, in ticks of half a second.
MaxTime == 1
\* Clients the forwarders accept in a run.
MaxClients == 2
\* Bytes a peer of a relayed connection writes in a run.
MaxBytes == 2
\* Most bytes one recv returns; the code's is 4096.
ChunkSize == 2

Ports == 1..NumPorts
Codes == 1..NumCodes
Threads == {1, 2}
\* connection_timeout values (seconds) the configuration file delivers here:
\* the loader passes on whatever number the file holds.
TimeoutValues == {0, 1}

NoCode == 0
NoPort == 0

\* The values of a byte, the two sockets of a relayed connection and the two
\* _forward_socket threads started on them.
Bytes == {0, 1}
Sockets == {"client", "server"}
Directions == {"client->server", "server->client"}

VARIABLES
    connections,        \* self.connections: code -> connection record
    order,              \* insertion order of self.connections' keys
    connection_ports,   \* self.connection_ports: port -> code
    available_ports,    \* self.available_ports
    used_ports,         \* self.used_ports
    forwarding_threads, \* keys of self.forwarding_threads
    starting,           \* forwarder threads started, not yet bound
    listeners,          \* port -> session whose forwarder listens on it
    config,             \* self.config
    config_file,        \* config/gateway_config.json as it was loaded
    quick,              \* request threads inside quick_join (SpecQuick)
    clock,              \* datetime.now(), in ticks
    reaper,             \* the cleanup thread: position and expired_codes
    pc,                 \* request threads inside create_connection (SpecConc)
    loc,                \* their local variables
    sweep,              \* the cleanup thread's walk over self.connections
    clients,            \* the sockets the accept loops have accepted, oldest first
    socks,              \* one relayed connection: its two sockets, open or closed
    wire,               \* per direction: bytes the peer wrote, not yet read; end of stream
    copy,               \* per direction: the _forward_socket thread
    last                \* the call (or step) that produced this state

vars == <<connections, order, connection_ports, available_ports, used_ports,
          forwarding_threads, starting, listeners, config, clock, reaper, pc,
          loc, sweep, clients, socks, wire, copy, config_file, quick, last>>

\* The state of the background threads' loops, which no GatewayManager method
\* writes.
copyVars == <<socks, wire, copy>>

\* What only the quick_join route reads or writes.
routeVars == <<config_file, quick>>

loops == <<sweep, clients, copyVars>>

\* ------------------------------------------------------------ helpers
Range(s) == {s[i] : i \in 1..Len(s)}

Ev(op, code, ret, port, was) ==
    [op |-> op, code |-> code, ret |-> ret, port |-> port, was |-> was]

\* datetime.isoformat(): the seconds, then the fraction (tenths here) unless
\* it is zero.  The clock counts half seconds.
isoformat(t) ==
    IF t % 2 = 0 THEN <<t \div 2>> ELSE <<t \div 2, 5>>

\* datetime.fromisoformat(): reads both shapes back.
fromisoformat(s) ==
    IF Len(s) = 1 THEN s[1] * 2 ELSE s[1] * 2 + (s[2] \div 5)

\* timedelta(seconds=n), in ticks
timedelta(n) == n * 2

StatusOf(code) ==
    IF code \in DOMAIN connections THEN connections[code].status ELSE "none"

Live(code) == StatusOf(code) \in {"pending", "active"}

IdleLoc == [code |-> NoCode, port |-> NoPort, seen |-> 0, ret |-> "none"]

\* ------------------------------------------------------------ Init
\* The configurations a run starts from: connection_timeout as the file gives
\* it, require_approval from the given set.
Configs(approval) ==
    [connection_timeout : TimeoutValues, require_approval : approval]

Start(configs) ==
    /\ connections = <<>>
    /\ order = <<>>
    /\ connection_ports = <<>>
    /\ available_ports = Ports
    /\ used_ports = {}
    /\ forwarding_threads = {}
    /\ starting = {}
    /\ listeners = [port \in Ports |-> NoCode]
    /\ config \in configs
    /\ config_file = config
    /\ quick = [t \in Threads |-> [pc |-> "idle", original |-> FALSE]]
    /\ clock = 0
    /\ reaper = [pc |-> "sleep", expired_codes |-> <<>>]
    /\ pc = [t \in Threads |-> "idle"]
    /\ loc = [t \in Threads |-> IdleLoc]
    /\ sweep = [now |-> 0, pos |-> 0, len |-> 0]
    /\ clients = <<>>
    /\ socks = [s \in Sockets |-> "open"]
    /\ wire = [d \in Directions |-> [bytes |-> <<>>, eof |-> FALSE]]
    /\ copy = [d \in Directions |->
                  [pc |-> "select", data |-> <<>>, got |-> <<>>, out |-> <<>>]]
    /\ last = Ev("init", NoCode, "none", NoPort, "none")

\* The state after construction, require_approval at its default.
Init == Start(Configs({FALSE}))

\* The same with require_approval as the configuration file sets it.
InitRoutes == Start(Configs(BOOLEAN))

\* ------------------------------------------------------------ port pool
\* allocate_port: the ports pop() may return (an arbitrary element).
allocate_port_choices == available_ports

\* release_port without line 77 (the port is not put back).
release_port_available_dropped(port) == available_ports

\* release_port(port): used_ports and available_ports after the call.
release_port_used(port) ==
    IF port \in used_ports THEN used_ports \ {port} ELSE used_ports

release_port_available(port) ==
    IF port \in used_ports THEN available_ports \cup {port} ELSE available_ports

\* ------------------------------------------------------------ sessions
\* The record create_connection stores, lines 87-99.  The call reads
\* datetime.now() for created_at and again for expires_at; within one call the
\* clock of the model does not move between the two.
new_connection(code, port) ==
    [code |-> code,
     port |-> port,
     status |-> "pending",
     created_at |-> isoformat(clock),
     expires_at |-> isoformat(clock + timedelta(config.connection_timeout)),
     stats |-> [bytes_forwarded |-> 0, connections |-> 0]]

\* self.connections[code] = connection, as a dict keeps keys: a new key goes
\* last, an existing key keeps its place.
store_connection(code, conn) ==
    /\ connections' = [c \in DOMAIN connections \cup {code} |->
                          IF c = code THEN conn ELSE connections[c]]
    /\ order' = IF code \in DOMAIN connections THEN order ELSE Append(order, code)

store_port(port, code) ==
    connection_ports' = [p \in DOMAIN connection_ports \cup {port} |->
                            IF p = port THEN code ELSE connection_ports[p]]

\* generate_connection_code: a draw that is not a key of self.connections
\* (a colliding draw is retried and changes nothing).
generate_connection_code == Codes \ DOMAIN connections

\* create_connection with the store of lines 101-102 moved above the test of
\* line 84.
create_connection_none_stored(code) ==
    /\ store_connection(code, new_connection(code, NoPort))
    /\ UNCHANGED <<connection_ports, available_ports, used_ports>>

\* create_connection, lines 82-85: allocate_port returned None (lines 65-67)
\* and the call returns None before anything is stored.
create_connection_none(code) ==
    UNCHANGED <<connections, order, connection_ports, available_ports, used_ports>>

\* get_connection_info's None.
None ==
    [code |-> NoCode, port |-> NoPort, status |-> "none",
     created_at |-> <<>>, expires_at |-> <<>>,
     stats |-> [bytes_forwarded |-> 0, connections |-> 0]]

\* get_connection_info answering for pending and active sessions only.
get_connection_info_live_only(code) ==
    IF code \in DOMAIN connections /\ Live(code) THEN connections[code] ELSE None

\* get_connection_info(code): self.connections.get(code).
get_connection_info(code) ==
    IF code \in DOMAIN connections THEN connections[code] ELSE None

\* create_connection, run to completion.
CreateConnection ==
    \E code \in generate_connection_code :
        IF available_ports = {}
        THEN /\ create_connection_none(code)
             /\ last' = Ev("create_connection", NoCode, "None", NoPort, "none")
             /\ UNCHANGED <<forwarding_threads, starting, listeners, config, routeVars, loops,
                            clock, reaper, pc, loc>>
        ELSE \E port \in allocate_port_choices :
             /\ available_ports' = available_ports \ {port}
             /\ used_ports' = used_ports \cup {port}
             /\ store_connection(code, new_connection(code, port))
             /\ store_port(port, code)
             /\ last' = Ev("create_connection", code, "connection", port, "none")
             /\ UNCHANGED <<forwarding_threads, starting, listeners, config, routeVars, loops, clock,
                            reaper, pc, loc>>

\* approve_connection(code): the value returned.
approve_connection_ret(code) == code \in DOMAIN connections

ApproveConnection(code) ==
    /\ IF approve_connection_ret(code)
       THEN connections' = [connections EXCEPT ![code].status = "active"]
       ELSE UNCHANGED connections
    /\ last' = Ev("approve_connection", code,
                  IF approve_connection_ret(code) THEN "True" ELSE "False",
                  NoPort, StatusOf(code))
    /\ UNCHANGED <<order, connection_ports, available_ports, used_ports,
                   forwarding_threads, starting, listeners, config, routeVars, loops, clock, reaper, pc, loc>>

\* revoke_connection(code): the value returned, and the status it writes.
revoke_connection_ret(code) == code \in DOMAIN connections

revoke_connection_status == "revoked"

\* The effect of revoke_connection(code) on the manager's state.
revoke_connection(code) ==
    IF revoke_connection_ret(code)
    THEN /\ used_ports' = release_port_used(connections[code].port)
         /\ available_ports' = release_port_available(connections[code].port)
         /\ connections' = [connections EXCEPT ![code].status = revoke_connection_status]
    ELSE UNCHANGED <<connections, used_ports, available_ports>>

RevokeConnection(code) ==
    /\ revoke_connection(code)
    /\ last' = Ev("revoke_connection", code,
                  IF revoke_connection_ret(code) THEN "True" ELSE "False",
                  IF code \in DOMAIN connections THEN connections[code].port ELSE NoPort,
                  StatusOf(code))
    /\ UNCHANGED <<order, connection_ports, forwarding_threads, starting, listeners,
                   config, routeVars, loops, clock, reaper, pc, loc>>

\* get_connection_url without the status test of line 270.
get_connection_url_any_status(code) ==
    IF code \in DOMAIN connections THEN connections[code].port ELSE NoPort

\* get_connection_url(code): the endpoint's port, or NoPort for None.
get_connection_url(code) ==
    IF code \in DOMAIN connections /\ connections[code].status = "active"
    THEN connections[code].port
    ELSE NoPort

GetConnectionUrl(code) ==
    /\ last' = Ev("get_connection_url", code,
                  IF get_connection_url(code) = NoPort THEN "None" ELSE "url",
                  get_connection_url(code), StatusOf(code))
    /\ UNCHANGED <<connections, order, connection_ports, available_ports, used_ports,
                   forwarding_threads, starting, listeners, config, routeVars, loops, clock, reaper, pc, loc>>

\* ------------------------------------------------------------ forwarding
\* start_port_forwarding(code): the value returned.
start_port_forwarding_ret(code) ==
    code \in DOMAIN connections /\ connections[code].status = "active"

\* start_port_forwarding(code): a thread running _forward_traffic on the
\* connection's port is started and recorded under that port.  `code` in the
\* thread's record names the session that started it (the thread itself only
\* gets the port).  Threads that have not bound yet and agree on port and
\* session behave alike and are kept once.
StartPortForwarding(code) ==
    /\ IF start_port_forwarding_ret(code)
       THEN /\ starting' = starting \cup
                   {[port |-> connections[code].port, code |-> code]}
            /\ forwarding_threads' = forwarding_threads \cup {connections[code].port}
       ELSE UNCHANGED <<starting, forwarding_threads>>
    /\ last' = Ev("start_port_forwarding", code,
                  IF start_port_forwarding_ret(code) THEN "True" ELSE "False",
                  NoPort, StatusOf(code))
    /\ UNCHANGED <<connections, order, connection_ports, available_ports, used_ports,
                   listeners, config, routeVars, loops, clock, reaper, pc, loc>>

\* _forward_traffic, lines 201-204, when bind and listen succeed: no listener
\* holds the port yet.
ForwarderBind(th) ==
    /\ listeners[th.port] = NoCode
    /\ listeners' = [listeners EXCEPT ![th.port] = th.code]
    /\ starting' = starting \ {th}
    /\ last' = Ev("bind", th.code, "listening", th.port, StatusOf(th.code))
    /\ UNCHANGED <<connections, order, connection_ports, available_ports, used_ports,
                   forwarding_threads, config, routeVars, loops, clock, reaper, pc, loc>>

\* _forward_traffic, lines 236-237: bind raised (an earlier forwarder or some
\* other process holds the port); the thread logs the failure and ends.
ForwarderBindFails(th) ==
    /\ starting' = starting \ {th}
    /\ last' = Ev("bind", th.code, "failed", th.port, StatusOf(th.code))
    /\ UNCHANGED <<connections, order, connection_ports, available_ports, used_ports,
                   forwarding_threads, listeners, config, routeVars, loops, clock, reaper, pc, loc>>

\* _forward_traffic, line 210: client_socket is bound to the newly accepted
\* socket.  A socket accepted earlier on this port whose dial failed was held
\* by that name only; once the name is rebound nothing refers to it and it is
\* closed when the object is reclaimed.
rebound(port) ==
    [i \in 1..Len(clients) |->
        IF clients[i].port = port /\ ~clients[i].relay
        THEN [clients[i] EXCEPT !.client = "closed"]
        ELSE clients[i]]

\* The handler of a failed dial without its `continue`: the exception leaves
\* the loop and the outer handler of lines 236-237 ends the thread.
dial_failed_listener_ends(port) == NoCode

\* _forward_traffic, lines 232-234: a failed dial is logged and the loop goes
\* on; the listener of the port afterwards.
dial_failed_listener(port) == listeners[port]

\* _forward_traffic, lines 208-234, one round of the accept loop of the
\* listener on `port`: a client is accepted (`code` in its record names the
\* session whose forwarder took it) and the backend dialled.  No statement of
\* the loop, nor of _forward_socket, writes a connection's stats.  When the
\* dial succeeds the two _forward_socket threads are started on the pair of
\* sockets (relay); when it raises, the handler logs and continues, and closes
\* nothing.  Nothing ever closes the listener, so the loop has no exit.
ForwarderAccept(port) ==
    /\ listeners[port] # NoCode
    /\ Len(clients) < MaxClients
    /\ \E ok \in BOOLEAN :
           /\ clients' = Append(rebound(port),
                                [port |-> port,
                                 code |-> listeners[port],
                                 client |-> "open",
                                 server |-> IF ok THEN "open" ELSE "failed",
                                 relay |-> ok])
           /\ listeners' = IF ok THEN listeners
                           ELSE [listeners EXCEPT ![port] = dial_failed_listener(port)]
           /\ last' = Ev("accept", listeners[port],
                         IF ok THEN "relayed" ELSE "dial_failed",
                         port, StatusOf(listeners[port]))
    /\ UNCHANGED <<connections, order, connection_ports, available_ports, used_ports,
                   forwarding_threads, starting, config, routeVars, sweep, copyVars, clock,
                   reaper,
                   pc, loc>>

\* ------------------------------------------------------------ copy loops
\* One relayed connection after lines 217-230: the client socket, the backend
\* socket and the two _forward_socket threads, each copying from its source
\* to its destination.
source(d) == IF d = "client->server" THEN "client" ELSE "server"

destination(d) == IF d = "client->server" THEN "server" ELSE "client"

Min(a, b) == IF a < b THEN a ELSE b

managerVars ==
    <<connections, order, connection_ports, available_ports, used_ports,
      forwarding_threads, starting, listeners, config, routeVars, clock, reaper,
      pc, loc,
      sweep, clients>>

\* The peer of the source socket writes a byte, which TCP queues behind the
\* bytes already under way.
PeerWrite(d, b) ==
    /\ ~wire[d].eof
    /\ socks[source(d)] = "open"
    /\ Len(copy[d].got) + Len(wire[d].bytes) < MaxBytes
    /\ wire' = [wire EXCEPT ![d].bytes = Append(@, b)]
    /\ last' = Ev("peer_write", NoCode, d, NoPort, "none")
    /\ UNCHANGED <<managerVars, socks, copy>>

\* The peer of the source socket closes its end.
PeerClose(d) ==
    /\ ~wire[d].eof
    /\ wire' = [wire EXCEPT ![d].eof = TRUE]
    /\ last' = Ev("peer_close", NoCode, d, NoPort, "none")
    /\ UNCHANGED <<managerVars, socks, copy>>

\* _forward_socket without its finally clause.
finally_close_skipped == UNCHANGED socks

\* lines 256-264: the finally clause closes both sockets.
finally_close == socks' = [s \in Sockets |-> "closed"]

\* lines 245-246 with data waiting: recv returns the first k bytes under way,
\* at least one and at most the size asked for.
recv(d, k) == SubSeq(wire[d].bytes, 1, k)

Recv(d) ==
    /\ copy[d].pc = "select"
    /\ socks[source(d)] = "open"
    /\ wire[d].bytes # <<>>
    /\ \E k \in 1..Min(Len(wire[d].bytes), ChunkSize) :
           /\ copy' = [copy EXCEPT ![d].pc = "sendall",
                                   ![d].data = recv(d, k),
                                   ![d].got = @ \o recv(d, k)]
           /\ wire' = [wire EXCEPT ![d].bytes =
                                       SubSeq(@, k + 1, Len(wire[d].bytes))]
    /\ last' = Ev("recv", NoCode, d, NoPort, "none")
    /\ UNCHANGED <<managerVars, socks>>

\* lines 245-248 at end of stream: recv returns b"", the loop breaks and the
\* finally clause runs.
RecvEof(d) ==
    /\ copy[d].pc = "select"
    /\ socks[source(d)] = "open"
    /\ wire[d].bytes = <<>>
    /\ wire[d].eof
    /\ copy' = [copy EXCEPT ![d].pc = "done"]
    /\ finally_close
    /\ last' = Ev("recv", NoCode, d, NoPort, "eof")
    /\ UNCHANGED <<managerVars, wire>>

\* line 244 on a source the other thread has closed: select raises, the
\* handler of lines 254-255 logs and the finally clause runs.
SelectFails(d) ==
    /\ copy[d].pc = "select"
    /\ socks[source(d)] = "closed"
    /\ copy' = [copy EXCEPT ![d].pc = "done"]
    /\ finally_close
    /\ last' = Ev("select", NoCode, d, NoPort, "raised")
    /\ UNCHANGED <<managerVars, wire>>

\* A copy loop that goes on after a send that raised part-way (one send call
\* per recv, its outcome ignored).
sendall_raised_ignored(d) == "select"

\* lines 254-264: sendall raised; the thread leaves the loop.
sendall_raised(d) == "done"

\* line 249: destination.sendall(data).  It delivers all of data, or raises
\* after delivering some k bytes of it (none when the destination has been
\* closed by the other thread).
Sendall(d) ==
    /\ copy[d].pc = "sendall"
    /\ \E k \in 0..Len(copy[d].data) :
           /\ socks[destination(d)] = "closed" => k = 0
           /\ copy' = [copy EXCEPT
                         ![d].out = @ \o SubSeq(copy[d].data, 1, k),
                         ![d].data = <<>>,
                         ![d].pc = IF k = Len(copy[d].data) THEN "select"
                                   ELSE sendall_raised(d)]
           /\ IF copy'[d].pc = "done" THEN finally_close ELSE UNCHANGED socks
           /\ last' = Ev("sendall", NoCode, d, NoPort,
                         IF k = Len(copy[d].data) THEN "sent" ELSE "raised")
    /\ UNCHANGED <<managerVars, wire>>

\* ------------------------------------------------------------ web routes
\* A forwarder thread for the session, as start_port_forwarding starts it.
forwarder(code, port) == [port |-> port, code |-> code]

\* POST /api/connection/request, run to completion: create_connection, and
\* unless require_approval is set, approve_connection, start_port_forwarding
\* and get_connection_url on the new code.  The event's port is the one in
\* connection_info.
RequestConnection ==
    \E code \in generate_connection_code :
        IF available_ports = {}
        THEN /\ create_connection_none(code)
             /\ last' = Ev("request_connection", NoCode, "None", NoPort, "none")
             /\ UNCHANGED <<forwarding_threads, starting, listeners, config, routeVars, loops,
                            clock, reaper, pc, loc>>
        ELSE \E port \in allocate_port_choices :
             /\ available_ports' = available_ports \ {port}
             /\ used_ports' = used_ports \cup {port}
             /\ store_port(port, code)
             /\ IF ~config.require_approval
                THEN /\ store_connection(code, [new_connection(code, port)
                                                  EXCEPT !.status = "active"])
                     /\ starting' = starting \cup {forwarder(code, port)}
                     /\ forwarding_threads' = forwarding_threads \cup {port}
                     /\ last' = Ev("request_connection", code, "connection", port, "none")
                ELSE /\ store_connection(code, new_connection(code, port))
                     /\ last' = Ev("request_connection", code, "connection", NoPort, "none")
                     /\ UNCHANGED <<starting, forwarding_threads>>
             /\ UNCHANGED <<listeners, config, routeVars, loops, clock, reaper, pc, loc>>

\* The socket event request_connection, run to completion: create_connection
\* and nothing else.
HandleConnectionRequest ==
    \E code \in generate_connection_code :
        IF available_ports = {}
        THEN /\ create_connection_none(code)
             /\ last' = Ev("handle_connection_request", NoCode, "None", NoPort, "none")
             /\ UNCHANGED <<forwarding_threads, starting, listeners, config, routeVars, loops,
                            clock, reaper, pc, loc>>
        ELSE \E port \in allocate_port_choices :
             /\ available_ports' = available_ports \ {port}
             /\ used_ports' = used_ports \cup {port}
             /\ store_connection(code, new_connection(code, port))
             /\ store_port(port, code)
             /\ last' = Ev("handle_connection_request", code, "connection", NoPort, "none")
             /\ UNCHANGED <<forwarding_threads, starting, listeners, config, routeVars, loops,
                            clock, reaper, pc, loc>>

\* POST /api/connection/<code>/approve, run to completion: when
\* approve_connection returns True, start_port_forwarding follows (the session
\* is active by then, so it starts a thread) and get_connection_url.
ApproveRoute(code) ==
    /\ IF approve_connection_ret(code)
       THEN /\ connections' = [connections EXCEPT ![code].status = "active"]
            /\ starting' = starting \cup {forwarder(code, connections[code].port)}
            /\ forwarding_threads' = forwarding_threads \cup {connections[code].port}
       ELSE UNCHANGED <<connections, starting, forwarding_threads>>
    /\ last' = Ev("approve_route", code,
                  IF approve_connection_ret(code) THEN "True" ELSE "False",
                  IF approve_connection_ret(code) THEN connections[code].port ELSE NoPort,
                  StatusOf(code))
    /\ UNCHANGED <<order, connection_ports, available_ports, used_ports, listeners,
                   config, routeVars, loops, clock, reaper, pc, loc>>

\* ------------------------------------------------------------ cleanup thread
\* The test of cleanup_expired_connections, line 156.
is_expired(now, conn) ==
    /\ now > fromisoformat(conn.expires_at)
    /\ conn.status \in {"pending", "active"}

\* cleanup_expired_connections, lines 151-157: the codes collected, in the
\* dictionary's order.  cleanup_worker calls the sweep on each of its rounds
\* while config["auto_cleanup"] is set, which is the default.
expired_codes(now) ==
    SelectSeq(order, LAMBDA code : is_expired(now, connections[code]))

CleanupCollect ==
    /\ reaper.pc = "sleep"
    /\ reaper' = [pc |-> IF expired_codes(clock) = <<>> THEN "sleep" ELSE "revoke",
                  expired_codes |-> expired_codes(clock)]
    /\ last' = Ev("cleanup_expired_connections", NoCode, "none", NoPort, "none")
    /\ UNCHANGED <<connections, order, connection_ports, available_ports, used_ports,
                   forwarding_threads, starting, listeners, config, routeVars, loops, clock, pc, loc>>

\* cleanup_expired_connections, lines 159-161: revoke the next collected code.
CleanupRevoke ==
    /\ reaper.pc = "revoke"
    /\ revoke_connection(Head(reaper.expired_codes))
    /\ reaper' = [pc |-> IF Tail(reaper.expired_codes) = <<>> THEN "sleep" ELSE "revoke",
                  expired_codes |-> Tail(reaper.expired_codes)]
    /\ last' = Ev("cleanup_revoke", Head(reaper.expired_codes), "True",
                  connections[Head(reaper.expired_codes)].port,
                  StatusOf(Head(reaper.expired_codes)))
    /\ UNCHANGED <<order, connection_ports, forwarding_threads, starting, listeners,
                   config, routeVars, loops, clock, pc, loc>>

\* Time passes.
Tick ==
    /\ clock < MaxTime
    /\ clock' = clock + 1
    /\ last' = Ev("tick", NoCode, "none", NoPort, "none")
    /\ UNCHANGED <<connections, order, connection_ports, available_ports, used_ports,
                   forwarding_threads, starting, listeners, config, routeVars, loops, reaper, pc, loc>>

\* ------------------------------------------------------------ the sweep, item by item
\* cleanup_expired_connections, lines 151-154: now is read and the walk over
\* self.connections.items() begins; the dict iterator notes the dict's size.
SweepBegin ==
    /\ reaper.pc = "sleep"
    /\ reaper' = [pc |-> "iter", expired_codes |-> <<>>]
    /\ sweep' = [now |-> clock, pos |-> 0, len |-> Len(order)]
    /\ last' = Ev("cleanup_expired_connections", NoCode, "begin", NoPort, "none")
    /\ UNCHANGED <<connections, order, connection_ports, available_ports, used_ports,
                   forwarding_threads, starting, listeners, config, routeVars, clients,
                   copyVars, clock,
                   pc, loc>>

\* lines 154-157: the iterator's next item.  A dict iterator raises
\* RuntimeError when the dict's size is no longer the one it noted; the sweep
\* has no handler and neither has cleanup_worker (lines 164-170), so the
\* cleanup thread ends.  Otherwise the item is tested and its code collected,
\* or the walk is over and the revokes of lines 159-161 follow.
SweepNext ==
    /\ reaper.pc = "iter"
    /\ IF Len(order) # sweep.len
       THEN /\ reaper' = [pc |-> "dead", expired_codes |-> <<>>]
            /\ last' = Ev("cleanup_expired_connections", NoCode, "RuntimeError",
                          NoPort, "none")
            /\ UNCHANGED sweep
       ELSE IF sweep.pos < sweep.len
       THEN /\ reaper' = [reaper EXCEPT !.expired_codes =
                             IF is_expired(sweep.now, connections[order[sweep.pos + 1]])
                             THEN Append(@, order[sweep.pos + 1]) ELSE @]
            /\ sweep' = [sweep EXCEPT !.pos = @ + 1]
            /\ last' = Ev("cleanup_item", order[sweep.pos + 1], "none", NoPort,
                          StatusOf(order[sweep.pos + 1]))
       ELSE /\ reaper' = [reaper EXCEPT !.pc =
                             IF reaper.expired_codes = <<>> THEN "sleep" ELSE "revoke"]
            /\ last' = Ev("cleanup_expired_connections", NoCode, "collected",
                          NoPort, "none")
            /\ UNCHANGED sweep
    /\ UNCHANGED <<connections, order, connection_ports, available_ports, used_ports,
                   forwarding_threads, starting, listeners, config, routeVars, clients,
                   copyVars, clock,
                   pc, loc>>

\* ------------------------------------------------------------ request threads
\* create_connection statement by statement, for request thread t.
StepEv(name) == Ev(name, NoCode, "none", NoPort, "none")

\* line 81: the call enters generate_connection_code.
BeginCreate(t) ==
    /\ pc[t] = "idle"
    /\ pc' = [pc EXCEPT ![t] = "generate"]
    /\ loc' = [loc EXCEPT ![t] = IdleLoc]
    /\ last' = StepEv("create_connection_begin")
    /\ UNCHANGED <<connections, order, connection_ports, available_ports, used_ports,
                   forwarding_threads, starting, listeners, config, routeVars, loops, clock, reaper>>

\* generate_connection_code, lines 57-61, one round of its `while True`: a
\* code is drawn; it is returned when it is not a key of self.connections at
\* that moment, and otherwise the loop draws again.  The loop has no other
\* exit.
GenerateDraw(t) ==
    /\ pc[t] = "generate"
    /\ \E code \in Codes :
           IF code \in DOMAIN connections
           THEN /\ last' = Ev("generate_connection_code", code, "collision",
                              NoPort, "none")
                /\ UNCHANGED <<pc, loc>>
           ELSE /\ pc' = [pc EXCEPT ![t] = "allocate"]
                /\ loc' = [loc EXCEPT ![t].code = code]
                /\ last' = Ev("generate_connection_code", code, "code",
                              NoPort, "none")
    /\ UNCHANGED <<connections, order, connection_ports, available_ports, used_ports,
                   forwarding_threads, starting, listeners, config, routeVars, loops, clock, reaper>>

\* allocate_port, lines 65-67, and create_connection's return of None, 84-85.
\* `seen` remembers how many free ports the check saw.
AllocateCheck(t) ==
    /\ pc[t] = "allocate"
    /\ IF available_ports = {}
       THEN /\ pc' = [pc EXCEPT ![t] = "idle"]
            /\ loc' = [loc EXCEPT ![t].ret = "None", ![t].seen = 0]
            /\ last' = Ev("create_connection", NoCode, "None", NoPort, "none")
       ELSE /\ pc' = [pc EXCEPT ![t] = "pop"]
            /\ loc' = [loc EXCEPT ![t].seen = Cardinality(available_ports)]
            /\ last' = StepEv("allocate_port_check")
    /\ UNCHANGED <<connections, order, connection_ports, available_ports, used_ports,
                   forwarding_threads, starting, listeners, config, routeVars, loops, clock, reaper>>

\* allocate_port, line 69: set.pop(), which raises KeyError on an empty set;
\* nothing in create_connection or its callers' try blocks turns that into None.
AllocatePop(t) ==
    /\ pc[t] = "pop"
    /\ IF available_ports = {}
       THEN /\ pc' = [pc EXCEPT ![t] = "idle"]
            /\ loc' = [loc EXCEPT ![t].ret = "KeyError"]
            /\ last' = Ev("create_connection", NoCode, "KeyError", NoPort, "none")
            /\ UNCHANGED available_ports
       ELSE \E port \in allocate_port_choices :
            /\ available_ports' = available_ports \ {port}
            /\ pc' = [pc EXCEPT ![t] = "add"]
            /\ loc' = [loc EXCEPT ![t].port = port]
            /\ last' = StepEv("allocate_port_pop")
    /\ UNCHANGED <<connections, order, connection_ports, used_ports,
                   forwarding_threads, starting, listeners, config, routeVars, loops, clock, reaper>>

\* allocate_port, lines 70-71.
AllocateAdd(t) ==
    /\ pc[t] = "add"
    /\ used_ports' = used_ports \cup {loc[t].port}
    /\ pc' = [pc EXCEPT ![t] = "store"]
    /\ last' = StepEv("allocate_port_add")
    /\ UNCHANGED <<connections, order, connection_ports, available_ports,
                   forwarding_threads, starting, listeners, config, routeVars, loops, clock, reaper, loc>>

\* create_connection, lines 87-107.
StoreConnection(t) ==
    /\ pc[t] = "store"
    /\ store_connection(loc[t].code, new_connection(loc[t].code, loc[t].port))
    /\ store_port(loc[t].port, loc[t].code)
    /\ pc' = [pc EXCEPT ![t] = "idle"]
    /\ loc' = [loc EXCEPT ![t].ret = "connection"]
    /\ last' = Ev("create_connection", loc[t].code, "connection", loc[t].port, "none")
    /\ UNCHANGED <<available_ports, used_ports, forwarding_threads, starting,
                   listeners, config, routeVars, loops, clock, reaper>>

\* ------------------------------------------------------------ quick_join
\* POST /connection/quick-join (src/src/connection_manager.py), statement by
\* statement, for request thread t.
quickFrame ==
    <<connections, order, connection_ports, available_ports, used_ports,
      forwarding_threads, starting, listeners, config_file, loops, clock, reaper,
      pc, loc>>

\* line 49: original_require_approval = self.gateway.config["require_approval"]
QuickJoinSave(t) ==
    /\ quick[t].pc = "idle"
    /\ quick' = [quick EXCEPT ![t] = [pc |-> "disable",
                                      original |-> config.require_approval]]
    /\ last' = StepEv("quick_join_save")
    /\ UNCHANGED <<quickFrame, config>>

\* line 50: self.gateway.config["require_approval"] = False
QuickJoinDisable(t) ==
    /\ quick[t].pc = "disable"
    /\ config' = [config EXCEPT !.require_approval = FALSE]
    /\ quick' = [quick EXCEPT ![t].pc = "create"]
    /\ last' = StepEv("quick_join_disable")
    /\ UNCHANGED quickFrame

\* lines 52-68: create_connection and, when it returned a connection,
\* approve_connection, start_port_forwarding and get_connection_url.
QuickJoinCreate(t) ==
    /\ quick[t].pc = "create"
    /\ quick' = [quick EXCEPT ![t].pc = "restore"]
    /\ \E code \in generate_connection_code :
           IF available_ports = {}
           THEN /\ create_connection_none(code)
                /\ last' = Ev("quick_join", NoCode, "None", NoPort, "none")
                /\ UNCHANGED <<forwarding_threads, starting>>
           ELSE \E port \in allocate_port_choices :
                /\ available_ports' = available_ports \ {port}
                /\ used_ports' = used_ports \cup {port}
                /\ store_port(port, code)
                /\ store_connection(code, [new_connection(code, port)
                                             EXCEPT !.status = "active"])
                /\ starting' = starting \cup {forwarder(code, port)}
                /\ forwarding_threads' = forwarding_threads \cup {port}
                /\ last' = Ev("quick_join", code, "connection", port, "none")
    /\ UNCHANGED <<listeners, config, config_file, loops, clock, reaper, pc, loc>>

\* lines 71-73, the finally clause:
\* self.gateway.config["require_approval"] = original_require_approval
QuickJoinRestore(t) ==
    /\ quick[t].pc = "restore"
    /\ config' = [config EXCEPT !.require_approval = quick[t].original]
    /\ quick' = [quick EXCEPT ![t].pc = "idle"]
    /\ last' = StepEv("quick_join_restore")
    /\ UNCHANGED quickFrame

\* ------------------------------------------------------------ specifications
\* Sessions, the port pool, the cleanup thread and the clock.
Next ==
    \/ CreateConnection
    \/ \E code \in Codes : ApproveConnection(code)
    \/ \E code \in Codes : RevokeConnection(code)
    \/ \E code \in Codes : GetConnectionUrl(code)
    \/ CleanupCollect
    \/ CleanupRevoke
    \/ Tick

Spec == Init /\ [][Next]_vars

\* The same with the forwarder threads, which write none of the variables the
\* actions of Next read.
NextForward ==
    \/ Next
    \/ \E code \in Codes : StartPortForwarding(code)
    \/ \E th \in starting : ForwarderBind(th)
    \/ \E th \in starting : ForwarderBindFails(th)
    \/ \E port \in Ports : ForwarderAccept(port)

SpecForward == Init /\ [][NextForward]_vars

\* Two request threads inside create_connection, with revokes between their
\* statements.
NextConc ==
    \/ \E t \in Threads : BeginCreate(t)
    \/ \E t \in Threads : GenerateDraw(t)
    \/ \E t \in Threads : AllocateCheck(t)
    \/ \E t \in Threads : AllocatePop(t)
    \/ \E t \in Threads : AllocateAdd(t)
    \/ \E t \in Threads : StoreConnection(t)
    \/ \E code \in Codes : ApproveConnection(code)
    \/ \E code \in Codes : RevokeConnection(code)

\* A request thread that is drawing codes goes on drawing.
SpecConc ==
    Init /\ [][NextConc]_vars /\ \A t \in Threads : WF_vars(GenerateDraw(t))

\* The cleanup thread walking the dictionary item by item while requests
\* create and approve sessions.  cleanup_worker loops for ever, so its steps
\* are taken whenever they stay possible.
NextSweep ==
    \/ CreateConnection
    \/ \E code \in Codes : ApproveConnection(code)
    \/ SweepBegin
    \/ SweepNext
    \/ CleanupRevoke
    \/ Tick

SpecSweep ==
    Init /\ [][NextSweep]_vars /\ WF_vars(SweepBegin \/ SweepNext \/ CleanupRevoke)

\* The routes and socket events that create, approve and revoke sessions, each
\* run to completion, under either setting of require_approval.
NextRoutes ==
    \/ RequestConnection
    \/ HandleConnectionRequest
    \/ \E code \in Codes : ApproveRoute(code)
    \/ \E code \in Codes : RevokeConnection(code)

SpecRoutes == InitRoutes /\ [][NextRoutes]_vars

\* Sessions made by the request route with require_approval at its default
\* (created, approved and forwarding at once), their forwarders' binds and
\* accept loops, and revokes.
NextRelay ==
    \/ RequestConnection
    \/ \E code \in Codes : RevokeConnection(code)
    \/ \E th \in starting : ForwarderBind(th)
    \/ \E port \in Ports : ForwarderAccept(port)

SpecRelay == Init /\ [][NextRelay]_vars

\* One relayed connection: its peers and its two copy loops.
NextCopy ==
    \/ \E d \in Directions : \E b \in Bytes : PeerWrite(d, b)
    \/ \E d \in Directions : PeerClose(d)
    \/ \E d \in Directions : Recv(d)
    \/ \E d \in Directions : RecvEof(d)
    \/ \E d \in Directions : SelectFails(d)
    \/ \E d \in Directions : Sendall(d)

\* A step of the _forward_socket thread of direction d.  Its select waits one
\* second at most, so a thread that is scheduled takes its next step.
LoopStep(d) == Recv(d) \/ RecvEof(d) \/ SelectFails(d) \/ Sendall(d)

SpecCopy == Init /\ [][NextCopy]_vars

\* The same connection with every byte written a zero (the loops never look
\* at the bytes they copy), and the two threads scheduled fairly.
NextClose ==
    \/ \E d \in Directions : PeerWrite(d, 0)
    \/ \E d \in Directions : PeerClose(d)
    \/ \E d \in Directions : Recv(d)
    \/ \E d \in Directions : RecvEof(d)
    \/ \E d \in Directions : SelectFails(d)
    \/ \E d \in Directions : Sendall(d)

SpecClose ==
    Init /\ [][NextClose]_vars /\ \A d \in Directions : WF_vars(LoopStep(d))

\* Two request threads inside quick_join beside the request route and the
\* revoke route, under either configured value of require_approval.
NextQuick ==
    \/ \E t \in Threads : QuickJoinSave(t)
    \/ \E t \in Threads : QuickJoinDisable(t)
    \/ \E t \in Threads : QuickJoinCreate(t)
    \/ \E t \in Threads : QuickJoinRestore(t)
    \/ RequestConnection
    \/ \E code \in Codes : RevokeConnection(code)

SpecQuick == InitRoutes /\ [][NextQuick]_vars

\* ------------------------------------------------------------ claims
Terminal(status) == status \in {"revoked", "expired"}

NonTerminal(status) == status \in {"pending", "active"}

RevokeOps == {"revoke_connection", "cleanup_revoke"}

\* C1: no two sessions whose status is pending or active hold the same port.
C1_NoSharedLivePort ==
    \A c1 \in DOMAIN connections : \A c2 \in DOMAIN connections :
        (c1 # c2 /\ Live(c1) /\ Live(c2)) =>
            connections[c1].port # connections[c2].port

\* C2: approve_connection succeeds exactly when the session was pending, and
\* on any other status it leaves the session's status as it was.
C2_ApproveOnlyPending ==
    last.op = "approve_connection" =>
        /\ (last.ret = "True") <=> (last.was = "pending")
        /\ last.was # "pending" => StatusOf(last.code) = last.was

\* C3: revoke_connection succeeds exactly when the session was pending or
\* active; a second revoke of the same code reports failure.
C3_RevokeOnlyLive ==
    last.op = "revoke_connection" =>
        ((last.ret = "True") <=> NonTerminal(last.was))

\* C4: a revoke (by the API or by the cleanup thread) of a session that is
\* already terminal moves no port from the used set to the free set.
C4_ReleasedOnce ==
    [][(last'.op \in RevokeOps /\ Terminal(last'.was)) =>
           UNCHANGED <<used_ports, available_ports>>]_vars

\* C5: the free set and the used set are disjoint and together are the
\* configured range, and right after a pending or active session is revoked
\* or expired its port is one that allocate_port may hand out.
C5_PoolPartition ==
    /\ available_ports \cap used_ports = {}
    /\ available_ports \cup used_ports = Ports
    /\ (last.op \in RevokeOps /\ NonTerminal(last.was)) =>
           /\ connections[last.code].port \in available_ports
           /\ connections[last.code].port \in allocate_port_choices

\* C5 witness: a create has just been given the port of a terminated session.
C5_PortReused ==
    /\ last.op = "create_connection"
    /\ last.ret = "connection"
    /\ \E c \in DOMAIN connections :
           /\ c # last.code
           /\ connections[c].port = last.port
           /\ ~Live(c)

\* C6: a create_connection call that found one free port at the emptiness
\* check ends with a stored session or with None, never with an exception.
C6_LoserGetsNone ==
    \A t \in Threads :
        (pc[t] = "idle" /\ loc[t].seen = 1) =>
            loc[t].ret \in {"none", "connection", "None"}

\* C7: get_connection_url returns an endpoint exactly for an existing active
\* session, the endpoint's port is the session's, and a session's port never
\* changes once stored.
C7_EndpointOnlyWhileActive ==
    [][/\ (last.op = "get_connection_url")' =>
             /\ (last.ret = "url")' <=> (StatusOf(last.code) = "active")'
             /\ (last.ret = "url")' => (last.port = connections[last.code].port)'
             /\ (last.ret # "url")' => (last.ret = "None" /\ last.port = NoPort)'
       /\ \A c \in DOMAIN connections :
             /\ c \in DOMAIN connections'
             /\ connections'[c].port = connections[c].port]_vars

\* C7 witness: an endpoint was returned for an approved session.
C7_EndpointReturned ==
    /\ last.op = "get_connection_url"
    /\ last.ret = "url"
    /\ last.port \in Ports

\* C8: the forwarder of a revoked session accepts no further client.
C8_NoAcceptAfterRevoke ==
    last.op = "accept" => last.was # "revoked"

\* C9: a session terminated by the cleanup sweep ends in status expired.
C9_ReaperExpires ==
    last.op = "cleanup_revoke" => StatusOf(last.code) = "expired"

\* C10: a sweep at time now selects for termination exactly the pending or
\* active sessions whose expires_at is less than or equal to now.
C10_SweepBoundary ==
    last.op = "cleanup_expired_connections" =>
        \A c \in DOMAIN connections :
            (c \in Range(reaper.expired_codes)) <=>
                (Live(c) /\ fromisoformat(connections[c].expires_at) <= clock)

\* C12: a start_port_forwarding call on a session whose forwarder is already
\* listening starts no further forwarder thread for that session.
C12_StartIdempotent ==
    (/\ last.op = "start_port_forwarding"
     /\ last.ret = "True"
     /\ listeners[connections[last.code].port] = last.code) =>
        \A th \in starting : th.code # last.code

\* C14: create_connection returns None exactly when the pool is empty, and
\* that call stores no session and leaves the registry, the free set, the
\* used set and the port-to-code map as they were.
C14_FailedCreateChangesNothing ==
    [][(last.op = "create_connection")' =>
           /\ (last.ret = "None")' <=> (available_ports = {})
           /\ (last.ret = "None")' =>
                  UNCHANGED <<connections, order, connection_ports,
                              available_ports, used_ports>>]_vars

\* C14 witness: a create was refused while a session holds the only port.
C14_CreateRefused ==
    /\ last.op = "create_connection"
    /\ last.ret = "None"
    /\ available_ports = {}
    /\ \E c \in DOMAIN connections : Live(c)

\* C15: after a forwarder thread failed to bind, its session is not left
\* active with its port reserved and nothing listening on it.
C15_BindFailureRolledBack ==
    (last.op = "bind" /\ last.ret = "failed") =>
        ~(/\ StatusOf(last.code) = "active"
          /\ last.port \in used_ports
          /\ listeners[last.port] = NoCode)

\* C19: a session whose status is revoked or expired keeps that status.
C19_TerminalIsFinal ==
    [][\A c \in DOMAIN connections :
           Terminal(connections[c].status) =>
               connections'[c].status = connections[c].status]_vars

\* C20: the code a create_connection call returned resolves through
\* get_connection_info, and a code that resolves keeps resolving after every
\* step, whatever the session's status.
C20_CodesStayResolvable ==
    [][/\ (last.op = "create_connection" /\ last.ret = "connection")' =>
             (get_connection_info(last.code) # None)'
       /\ \A c \in Codes :
             get_connection_info(c) # None => (get_connection_info(c) # None)']_vars

\* C20 witness: a revoked session is still resolvable.
C20_TerminalResolvable ==
    /\ last.op \in RevokeOps
    /\ StatusOf(last.code) = "revoked"
    /\ get_connection_info(last.code) # None
    /\ get_connection_info(last.code).code = last.code

\* C11: with the cleanup thread started and scheduled fairly, a session that
\* is pending or active after its expires_at has passed reaches a terminal
\* status with its port back in the free set.
C11_ExpiryEnforced ==
    \A c \in Codes :
        (Live(c) /\ clock > fromisoformat(connections[c].expires_at))
            ~> (/\ c \in DOMAIN connections
                /\ ~Live(c)
                /\ connections[c].port \in available_ports)

\* C13: a session returned by a creation entry point (the request route or
\* the request_connection socket event) is active with its forwarder started
\* when require_approval is false, and pending with no forwarder started when
\* require_approval is true.
C13_ApprovalFlagHonoured ==
    (/\ last.op \in {"request_connection", "handle_connection_request"}
     /\ last.ret = "connection") =>
        IF config.require_approval
        THEN /\ StatusOf(last.code) = "pending"
             /\ \A th \in starting : th.code # last.code
        ELSE /\ StatusOf(last.code) = "active"
             /\ \E th \in starting : th.code = last.code

\* C16: every accepted client socket that is open has a backend peer and its
\* two copy loops; a client whose backend dial failed is closed.
C16_FailedDialClosesClient ==
    \A i \in 1..Len(clients) :
        clients[i].client = "open" =>
            (clients[i].server = "open" /\ clients[i].relay)

\* C17: a round of the accept loop whose backend dial failed leaves the
\* session's status as it was and leaves the listener listening, so that the
\* loop takes its next client.
C17_DialFailureIsLocal ==
    [][(last.op = "accept" /\ last.ret = "dial_failed")' =>
           /\ connections' = connections
           /\ listeners' = listeners
           /\ listeners'[last'.port] = last'.code]_vars

\* C17 witness: after a client whose dial failed, the same listener accepted
\* a client and relays it, its session still active.
C17_LaterClientRelayed ==
    /\ last.op = "accept"
    /\ last.ret = "relayed"
    /\ StatusOf(last.code) = "active"
    /\ \E i \in 1..Len(clients) : \E j \in 1..Len(clients) :
           /\ i < j
           /\ clients[i].port = last.port /\ clients[i].server = "failed"
           /\ clients[j].port = last.port /\ clients[j].relay

IsPrefix(s, t) == Len(s) <= Len(t) /\ SubSeq(t, 1, Len(s)) = s

\* C18: in each direction of a relayed connection the bytes delivered to the
\* destination are a prefix of the bytes read from the source, which are a
\* prefix of the bytes the source's peer wrote.
C18_DeliveredIsPrefix ==
    \A d \in Directions :
        /\ IsPrefix(copy[d].out, copy[d].got)
        /\ IsPrefix(copy[d].out \o copy[d].data, copy[d].got)
        /\ IsPrefix(copy[d].out, copy[d].got \o wire[d].bytes)

\* C18 witness: the backend wrote back the two different bytes it was
\* delivered, and both have reached the client.
C18_EchoArrived ==
    /\ Len(copy["client->server"].out) = 2
    /\ copy["client->server"].out[1] # copy["client->server"].out[2]
    /\ copy["server->client"].out = copy["client->server"].out

\* C22: the cleanup thread never stops: no sweep fails because a session was
\* created while it walked the dictionary.
C22_ReaperSurvivesCreate ==
    reaper.pc # "dead"

\* C26: every stored session's expires_at is later than its created_at.
C26_ExpiresAfterCreated ==
    \A c \in DOMAIN connections :
        fromisoformat(connections[c].expires_at) >
            fromisoformat(connections[c].created_at)

\* C27: the used set is exactly the set of ports held by pending or active
\* sessions.
C27_UsedIsLivePorts ==
    used_ports = {connections[c].port : c \in {x \in DOMAIN connections : Live(x)}}

\* C28: a port with a listening forwarder is held by an active session, and
\* by no pending one.
C28_ListenerOnlyForActive ==
    \A p \in Ports :
        listeners[p] # NoCode =>
            /\ \E c \in DOMAIN connections :
                   connections[c].port = p /\ connections[c].status = "active"
            /\ \A c \in DOMAIN connections :
                   connections[c].port = p => connections[c].status # "pending"

C24_StatsTrackRelay ==
    \A c \in DOMAIN connections :
        /\ connections[c].stats.connections =
               Cardinality({i \in 1..Len(clients) : clients[i].code = c})
        /\ connections[c].stats.bytes_forwarded >= 0

\* C21: a create_connection call never stores its session under a code that
\* is already a key of the registry, so no two calls return the same code and
\* no stored session is overwritten.
C21_CodesUnique ==
    [][\A t \in Threads :
           (pc[t] = "store" /\ pc'[t] = "idle") =>
               loc[t].code \notin DOMAIN connections]_vars

\* C25: a call that is inside generate_connection_code when every code is
\* taken leaves it (with an error).
C25_GenerateTerminates ==
    \A t \in Threads :
        (pc[t] = "generate" /\ DOMAIN connections = Codes)
            ~> (pc[t] # "generate")

\* C29: whenever no quick_join request is in flight, require_approval has
\* the value it was configured with.
C29_ApprovalFlagRestored ==
    (\A t \in Threads : quick[t].pc = "idle") =>
        config.require_approval = config_file.require_approval

\* C30: while require_approval is configured true, a session returned by the
\* request route is pending.
C30_RouteNeverAutoApproves ==
    (/\ last.op = "request_connection"
     /\ last.ret = "connection"
     /\ config_file.require_approval) =>
        StatusOf(last.code) = "pending"

====
